---- MODULE Spec2Model ----
(***************************************************************************)
(* MaskedAutoencoderChannelViT (models_mae_channels.py): the tensor        *)
(* pipeline of the channel-wise masked autoencoder.                        *)
(*                                                                         *)
(* A tensor is a record [shape, data]: data is the row-major (contiguous)  *)
(* flattening, so reshape/view keep data and change shape, while           *)
(* permute/einsum move the elements.  Indices that the code stores in      *)
(* tensors (ids_shuffle, ids_restore) are 0-based, as in torch; positions  *)
(* of TLA+ sequences are 1-based.                                          *)
(*                                                                         *)
(* mask_ratio is a dyadic rational num / RatioDen: on these values the     *)
(* float expression L * (1 - mask_ratio) of random_masking is exact, so    *)
(* int() of it is the truncation computed here.                            *)
(***************************************************************************)
EXTENDS Integers, Sequences, FiniteSets, TLC

\* model: the constructed module (its configuration and parameters);
\* pc: the position of the current call; call: its arguments and noise draw;
\* loc: its locals and result; prev: what the caller kept of an earlier call
VARIABLES model, pc, call, loc, prev

vars == <<model, pc, call, loc, prev>>

----------------------------------------------------------------------------
(* Bounds of the model *)

MaxBatch == 2
MaxChans == 3
MaxSide == 4
MaxPatch == 3
MaxSeed == 2
MaxLen == 4
MaxDim == 2
NoiseMax == 1
RatioBits == 2
PatchSize == 2
PosDim == 1
ChanDim == 1
DecPosDim == 2
DecChanDim == 1
MaxShift == 2
FwdChans == 3
MaxPerm == 4

----------------------------------------------------------------------------
(* Tensors *)

RECURSIVE Prod(_)
Prod(s) == IF s = <<>> THEN 1 ELSE Head(s) * Prod(Tail(s))

Numel(t) == Prod(t.shape)

\* (data \o <<>> is data, stored as a sequence: TLC then evaluates each element
\* once instead of at every use)
Tensor(shape, data) == [shape |-> shape, data |-> data \o <<>>]

\* flat 0-based offset of the multi-index idx in a contiguous tensor of this shape
RECURSIVE Ravel(_, _)
Ravel(idx, shape) ==
    IF shape = <<>> THEN 0
    ELSE Head(idx) * Prod(Tail(shape)) + Ravel(Tail(idx), Tail(shape))

\* the multi-index of the flat 0-based offset i
RECURSIVE Unravel(_, _)
Unravel(i, shape) ==
    IF shape = <<>> THEN <<>>
    ELSE <<i \div Prod(Tail(shape))>> \o Unravel(i % Prod(Tail(shape)), Tail(shape))

At(t, idx) == t.data[Ravel(idx, t.shape) + 1]

\* Tensor.reshape / Tensor.view of a contiguous tensor: RuntimeError when the
\* element counts differ
CanReshape(t, shape) == Prod(shape) = Numel(t)

Reshape(t, shape) == Tensor(shape, t.data)

\* Tensor.permute(dims) followed by a copy to contiguous memory; dims is the
\* 1-based form of torch's dims: result axis k is source axis dims[k]
Permute(t, dims) ==
    LET newshape == [k \in 1..Len(dims) |-> t.shape[dims[k]]]
        src(j) == LET nidx == Unravel(j, newshape)
                      oidx == [a \in 1..Len(dims) |->
                                 nidx[CHOOSE k \in 1..Len(dims) : dims[k] = a]]
                  IN  t.data[Ravel(oidx, t.shape) + 1]
    IN  Tensor(newshape, [j \in 1..Prod(newshape) |-> src(j - 1)])

----------------------------------------------------------------------------
(* Results of a call: a value, or the exception that ended it *)

Ok(v) == [ok |-> TRUE, val |-> v]

Raise(kind, where) == [ok |-> FALSE, err |-> kind, at |-> where]

----------------------------------------------------------------------------
(* Tokenizer *)

\* patchify without the assertion of line 121 on H == W
patchify_NoSquareAssert(imgs, p, c) ==
    IF ~(imgs.shape[3] % p = 0)
    THEN Raise("AssertionError", "patchify")
    ELSE LET n == imgs.shape[1]
             h == imgs.shape[3] \div p
             w == h
         IN  IF ~CanReshape(imgs, <<n, c, h, p, w, p>>)
             THEN Raise("RuntimeError", "patchify")
             ELSE LET x1 == Reshape(imgs, <<n, c, h, p, w, p>>)
                      x2 == Permute(x1, <<1, 2, 3, 5, 4, 6>>)
                      x3 == Reshape(x2, <<n, c, h * w, p * p>>)
                  IN  Ok(Reshape(x3, <<n, c * h * w, p * p>>))

\* patchify with the einsum 'nchpwq->nchwpq' replaced by a plain reshape
patchify_NoEinsum(imgs, p, c) ==
    IF ~(imgs.shape[3] = imgs.shape[4] /\ imgs.shape[3] % p = 0)
    THEN Raise("AssertionError", "patchify")
    ELSE LET n == imgs.shape[1]
             h == imgs.shape[3] \div p
             w == h
         IN  IF ~CanReshape(imgs, <<n, c, h, p, w, p>>)
             THEN Raise("RuntimeError", "patchify")
             ELSE Ok(Reshape(imgs, <<n, c * h * w, p * p>>))

\* imgs: (N, C, H, W) -> x: (N, L*C, patch_size**2)
patchify(imgs, p, c) ==
    IF ~(imgs.shape[3] = imgs.shape[4] /\ imgs.shape[3] % p = 0)
    THEN Raise("AssertionError", "patchify")
    ELSE LET n == imgs.shape[1]
             h == imgs.shape[3] \div p
             w == h
         IN  IF ~CanReshape(imgs, <<n, c, h, p, w, p>>)
             THEN Raise("RuntimeError", "patchify")
             ELSE LET x1 == Reshape(imgs, <<n, c, h, p, w, p>>)
                      \* einsum 'nchpwq->nchwpq'
                      x2 == Permute(x1, <<1, 2, 3, 5, 4, 6>>)
                      x3 == Reshape(x2, <<n, c, h * w, p * p>>)
                  IN  Ok(Reshape(x3, <<n, c * h * w, p * p>>))

\* int((s / c) ** .5): the largest k with k * k <= s / c
IntSqrtDiv(s, c) == CHOOSE k \in 0..s : k * k * c <= s /\ (k + 1) * (k + 1) * c > s

\* unpatchify with the einsum 'nchwpq->nchpwq' replaced by a plain reshape
unpatchify_NoEinsum(x, p, c) ==
    LET h == IntSqrtDiv(x.shape[2], c)
        w == h
    IN  IF ~(h * w * c = x.shape[2])
        THEN Raise("AssertionError", "unpatchify")
        ELSE IF ~CanReshape(x, <<x.shape[1], c, h, w, p, p>>)
        THEN Raise("RuntimeError", "unpatchify")
        ELSE Ok(Reshape(x, <<x.shape[1], c, h * p, h * p>>))

\* x: (N, L*C, patch_size**2) -> imgs: (N, C, H, W)
unpatchify(x, p, c) ==
    LET h == IntSqrtDiv(x.shape[2], c)
        w == h
    IN  IF ~(h * w * c = x.shape[2])
        THEN Raise("AssertionError", "unpatchify")
        ELSE IF ~CanReshape(x, <<x.shape[1], c, h, w, p, p>>)
        THEN Raise("RuntimeError", "unpatchify")
        ELSE LET x1 == Reshape(x, <<x.shape[1], c, h, w, p, p>>)
                 \* einsum 'nchwpq->nchpwq'
                 x2 == Permute(x1, <<1, 2, 3, 5, 4, 6>>)
             IN  Ok(Reshape(x2, <<x.shape[1], c, h * p, h * p>>))

\* an image batch (N, C, H, W): pixel k (flat, 0-based) has the value k * seed,
\* so that with seed > 0 every pixel of the batch is different
Image(n, c, h, w, seed) ==
    Tensor(<<n, c, h, w>>, [k \in 1..(n * c * h * w) |-> (k - 1) * seed])

ImageBatches ==
    { Image(n, c, h, w, seed) :
        n \in 1..MaxBatch, c \in 1..MaxChans, h \in 1..MaxSide, w \in 1..MaxSide,
        seed \in 1..MaxSeed }

----------------------------------------------------------------------------
(* Masking engine *)

RatioDen == 2 ^ RatioBits

\* mask_ratio = num / RatioDen, from -1/2 to 3/2: inside and outside (0, 1)
Ratios == { [num |-> k, den |-> RatioDen] : k \in (0 - RatioDen \div 2)..(RatioDen + RatioDen \div 2) }

InOpenUnit(r) == 0 < r.num /\ r.num < r.den

InClosedUnit(r) == 0 <= r.num /\ r.num <= r.den

\* a / b (b > 0) rounded away from zero in place of int()'s truncation
IntTrunc_RoundUp(a, b) == IF a >= 0 THEN (a + b - 1) \div b ELSE 0 - ((b - a - 1) \div b)

\* Python's int() of the float a / b (b > 0): truncation toward zero
IntTrunc(a, b) == IF a >= 0 THEN a \div b ELSE 0 - ((0 - a) \div b)

\* the length of the Python slice [:k] of a sequence of length n
SliceLen(n, k) ==
    IF k >= n THEN n
    ELSE IF k >= 0 THEN k
    ELSE IF n + k >= 0 THEN n + k
    ELSE 0

\* torch.rand(N, L) for N = 1, quantised: the draws of a row of L noise values
NoiseDraws(L) == [1..L -> 0..NoiseMax]

RECURSIVE SeqsOf(_)
SeqsOf(S) ==
    IF S = {} THEN {<<>>}
    ELSE UNION { { <<e>> \o t : t \in SeqsOf(S \ {e}) } : e \in S }

RECURSIVE SortedFrom(_, _, _)
SortedFrom(noise, v, top) ==
    IF v > top THEN {<<>>}
    ELSE { a \o b : a \in SeqsOf({ i \in DOMAIN noise : noise[i] = v }),
                    b \in SortedFrom(noise, v + 1, top) }

MaxOf(f) == CHOOSE m \in { f[i] : i \in DOMAIN f } : \A i \in DOMAIN f : f[i] <= m

\* torch.argsort(noise, dim=1) of one row: the sort is not stable, so equal
\* noise values may come out in any order.  The outcomes are the 0-based index
\* rows that list the noise in ascending order.
ArgsortOutcomes(noise) ==
    IF DOMAIN noise = {} THEN {<<>>}
    ELSE { [k \in DOMAIN s |-> s[k] - 1] : s \in SortedFrom(noise, 0, MaxOf(noise)) }

\* torch.argsort of a row that is a permutation of 0..L-1: its inverse
ArgsortPerm(ids) ==
    [j \in 1..Len(ids) |-> (CHOOSE k \in 1..Len(ids) : ids[k] = j - 1) - 1]

\* torch.gather(x, dim=1, index=ids.unsqueeze(-1).repeat(1, 1, D)) for
\* x: (N, L, D) and ids: (N, K)
GatherTokens(x, ids) ==
    LET N == x.shape[1]
        D == x.shape[3]
        K == ids.shape[2]
    IN  Tensor(<<N, K, D>>,
               [j \in 1..(N * K * D) |->
                  LET idx == Unravel(j - 1, <<N, K, D>>)
                  IN  At(x, <<idx[1], At(ids, <<idx[1], idx[2]>>), idx[3]>>)])

\* torch.gather(m, dim=1, index=ids) for m: (N, L) and ids: (N, K)
GatherRow(m, ids) ==
    LET N == ids.shape[1]
        K == ids.shape[2]
    IN  Tensor(<<N, K>>,
               [j \in 1..(N * K) |->
                  LET idx == Unravel(j - 1, <<N, K>>)
                  IN  At(m, <<idx[1], At(ids, <<idx[1], idx[2]>>)>>)])

\* t[:, :k] of a 2-D tensor
SliceCols(t, k) ==
    LET N == t.shape[1]
        K == SliceLen(t.shape[2], k)
    IN  Tensor(<<N, K>>,
               [j \in 1..(N * K) |->
                  LET idx == Unravel(j - 1, <<N, K>>) IN At(t, idx)])

\* random_masking keeping one token more than len_keep
random_masking_KeepOneMore(x, mask_ratio, ids_shuffle) ==
    LET N == x.shape[1]
        L == x.shape[2]
        len_keep == IntTrunc(L * (mask_ratio.den - mask_ratio.num), mask_ratio.den)
        ids_restore == Tensor(<<N, L>>, ArgsortPerm(ids_shuffle.data))
        ids_keep == SliceCols(ids_shuffle, len_keep + 1)
        kept == SliceLen(L, len_keep + 1)
        ones == Tensor(<<N, L>>,
                       [j \in 1..(N * L) |-> IF (j - 1) % L < kept THEN 0 ELSE 1])
    IN  [x_masked |-> GatherTokens(x, ids_keep),
         mask |-> GatherRow(ones, ids_restore),
         ids_restore |-> ids_restore,
         len_keep |-> len_keep]

\* x: [N, L, D] with N = 1; ids_shuffle: the outcome of argsort(noise), (N, L).
\* Returns x_masked, mask, ids_restore (and the local len_keep).
random_masking(x, mask_ratio, ids_shuffle) ==
    LET N == x.shape[1]
        L == x.shape[2]
        len_keep == IntTrunc(L * (mask_ratio.den - mask_ratio.num), mask_ratio.den)
        ids_restore == Tensor(<<N, L>>, ArgsortPerm(ids_shuffle.data))
        \* keep the first subset
        ids_keep == SliceCols(ids_shuffle, len_keep)
        kept == SliceLen(L, len_keep)
        \* mask = ones; mask[:, :len_keep] = 0
        ones == Tensor(<<N, L>>,
                       [j \in 1..(N * L) |-> IF (j - 1) % L < kept THEN 0 ELSE 1])
    IN  [x_masked |-> GatherTokens(x, ids_keep),
         \* unshuffle to get the binary mask
         mask |-> GatherRow(ones, ids_restore),
         ids_restore |-> ids_restore,
         len_keep |-> len_keep]

\* a token sequence (1, L, D) whose element k (flat, 0-based) is k
TokenSeq(L, D) == Tensor(<<1, L, D>>, [k \in 1..(L * D) |-> k - 1])

----------------------------------------------------------------------------
(* Tensor construction helpers used by the encoder and the decoder *)

\* torch.cat((a, b), dim=1) of two 3-D tensors that agree on dims 0 and 2
Cat1(a, b) ==
    LET A == a.shape[2]
        F(idx) == IF idx[2] < A THEN At(a, idx)
                  ELSE At(b, <<idx[1], idx[2] - A, idx[3]>>)
    IN  Tensor(<<a.shape[1], A + b.shape[2], a.shape[3]>>,
               [j \in 1..Prod(<<a.shape[1], A + b.shape[2], a.shape[3]>>) |->
                  F(Unravel(j - 1, <<a.shape[1], A + b.shape[2], a.shape[3]>>))])

\* x[:, from:, :] of a 3-D tensor
DropTokens(x, from) ==
    LET F(idx) == At(x, <<idx[1], idx[2] + from, idx[3]>>)
    IN  Tensor(<<x.shape[1], x.shape[2] - from, x.shape[3]>>,
               [j \in 1..Prod(<<x.shape[1], x.shape[2] - from, x.shape[3]>>) |->
                  F(Unravel(j - 1, <<x.shape[1], x.shape[2] - from, x.shape[3]>>))])

\* x[:, :1, :] of a 3-D tensor
FirstToken(x) ==
    LET F(idx) == At(x, idx)
    IN  Tensor(<<x.shape[1], 1, x.shape[3]>>,
               [j \in 1..Prod(<<x.shape[1], 1, x.shape[3]>>) |->
                  F(Unravel(j - 1, <<x.shape[1], 1, x.shape[3]>>))])

\* the D elements of token (n, i) of a 3-D tensor
TokenAt(x, n, i) == [d \in 1..x.shape[3] |-> At(x, <<n, i, d - 1>>)]

\* what a token is made of: the patches its elements embed and the embedding
\* rows added to them.  An embedded token of channel ch and location s has
\* src = {<<"patch", n * c + ch, s>>} and
\* emb = {<<"pos_embed", s + 1>>, <<"channel_embed", ch>>}; the cls token has
\* src = {<<"cls_token">>} and no emb.
Summary(tok) ==
    [src |-> { IF tok[d].k = "sum" THEN <<"patch", tok[d].a.img, tok[d].a.s>>
               ELSE <<tok[d].k>> : d \in DOMAIN tok },
     emb |-> { <<tok[d].b.k, tok[d].b.row>> : d \in { e \in DOMAIN tok : tok[e].k = "sum" } }]

\* a stack of transformer blocks and the final norm: (N, S, D) -> (N, S, D).
\* Attention mixes the values; the token at a position stays the token of that
\* position, which is what an element records here.
Blocks(x, tag) ==
    LET F(idx) == [k |-> tag, tok |-> Summary(TokenAt(x, idx[1], idx[2])), d |-> idx[3]]
    IN  Tensor(x.shape,
               [j \in 1..Prod(x.shape) |->
                  F(Unravel(j - 1, x.shape))])

----------------------------------------------------------------------------
(* Encoder *)

EmbedDim == PosDim + ChanDim

DecEmbedDim == DecPosDim + DecChanDim

NumPatches(m) == (m.img_size \div m.patch_size) * (m.img_size \div m.patch_size)

\* self.pos_embed: (1, num_patches + 1, embed_dim - channel_embed), frozen
pos_embed(m) ==
    LET F(idx) == [k |-> "pos_embed", row |-> idx[2], d |-> idx[3]]
    IN  Tensor(<<1, NumPatches(m) + 1, PosDim>>,
               [j \in 1..Prod(<<1, NumPatches(m) + 1, PosDim>>) |->
                  F(Unravel(j - 1, <<1, NumPatches(m) + 1, PosDim>>))])

\* self.channel_embed: (1, in_chans, channel_embed), frozen
channel_embed(m) ==
    LET F(idx) == [k |-> "channel_embed", row |-> idx[2], d |-> idx[3]]
    IN  Tensor(<<1, m.in_c, ChanDim>>,
               [j \in 1..Prod(<<1, m.in_c, ChanDim>>) |->
                  F(Unravel(j - 1, <<1, m.in_c, ChanDim>>))])

\* self.cls_token: (1, 1, embed_dim)
cls_token ==
    LET F(idx) == [k |-> "cls_token", d |-> idx[3]]
    IN  Tensor(<<1, 1, EmbedDim>>,
               [j \in 1..Prod(<<1, 1, EmbedDim>>) |->
                  F(Unravel(j - 1, <<1, 1, EmbedDim>>))])

\* self.patch_embed (timm PatchEmbed with one input channel) on x_inp:
\* (B, 1, h, w) -> (B, L, D) with L = (h // p) * (w // p); token s of image img
\* is the projection of the p x p block at grid row s // (w // p), grid column
\* s % (w // p).  The images given to the encoder have h = w = img_size, as
\* PatchEmbed requires.
patch_embed(m, x_inp) ==
    LET p == m.patch_size
        F(idx) == [k |-> "patch", img |-> idx[1], s |-> idx[2], d |-> idx[3]]
    IN  Tensor(<<x_inp.shape[1], (x_inp.shape[3] \div p) * (x_inp.shape[4] \div p), EmbedDim>>,
               [j \in 1..Prod(<<x_inp.shape[1], (x_inp.shape[3] \div p) * (x_inp.shape[4] \div p), EmbedDim>>) |->
                  F(Unravel(j - 1, <<x_inp.shape[1], (x_inp.shape[3] \div p) * (x_inp.shape[4] \div p), EmbedDim>>))])

\* pos_channel with pos_embed[:, :-1] in place of pos_embed[:, 1:] (the cls row
\* not skipped)
enc_pos_channel_Row0(m) ==
    LET pe == pos_embed(m)
        ce == channel_embed(m)
        F(idx) == IF idx[4] < PosDim
                  THEN At(pe, <<0, idx[3], idx[4]>>)
                  ELSE At(ce, <<0, idx[2], idx[4] - PosDim>>)
    IN  Tensor(<<1, m.in_c, NumPatches(m), EmbedDim>>,
               [j \in 1..Prod(<<1, m.in_c, NumPatches(m), EmbedDim>>) |->
                  F(Unravel(j - 1, <<1, m.in_c, NumPatches(m), EmbedDim>>))])

\* lines 189-195: pos_channel (1, in_c, L, D) = cat(pos_embed[:, 1:] expanded over
\* the channels, channel_embed expanded over the positions) on the last axis
enc_pos_channel(m) ==
    LET pe == pos_embed(m)
        ce == channel_embed(m)
        F(idx) == IF idx[4] < PosDim
                  THEN At(pe, <<0, idx[3] + 1, idx[4]>>)
                  ELSE At(ce, <<0, idx[2], idx[4] - PosDim>>)
    IN  Tensor(<<1, m.in_c, NumPatches(m), EmbedDim>>,
               [j \in 1..Prod(<<1, m.in_c, NumPatches(m), EmbedDim>>) |->
                  F(Unravel(j - 1, <<1, m.in_c, NumPatches(m), EmbedDim>>))])

\* a + b with b broadcast, for a: (b, c, L, D) and b: (1, c2, L, D); the
\* channel axes must be equal or one of them 1
CanBroadcast(c, c2) == c = c2 \/ c = 1 \/ c2 = 1

AddBroadcast(a, b) ==
    LET c == a.shape[2]
        c2 == b.shape[2]
        cr == IF c >= c2 THEN c ELSE c2
        F(idx) == [k |-> "sum",
                   a |-> At(a, <<idx[1], IF c = 1 THEN 0 ELSE idx[2], idx[3], idx[4]>>),
                   b |-> At(b, <<0, IF c2 = 1 THEN 0 ELSE idx[2], idx[3], idx[4]>>)]
    IN  Tensor(<<a.shape[1], cr, a.shape[3], a.shape[4]>>,
               [j \in 1..Prod(<<a.shape[1], cr, a.shape[3], a.shape[4]>>) |->
                  F(Unravel(j - 1, <<a.shape[1], cr, a.shape[3], a.shape[4]>>))])

\* lines 177-198: x (N, C, H, W) -> the embedded tokens (N, c, L, D) with the
\* positional and channel embeddings added
encoder_embed(m, x) ==
    LET b == x.shape[1]
        c == x.shape[2]
        h == x.shape[3]
        w == x.shape[4]
        x_inp == Reshape(x, <<b * c, 1, h, w>>)
        x_embed == patch_embed(m, x_inp)
        L == x_embed.shape[2]
        D == x_embed.shape[3]
        x4 == Reshape(x_embed, <<b, c, L, D>>)
    IN  IF ~CanBroadcast(c, m.in_c)
        THEN Raise("RuntimeError", "forward_encoder")
        ELSE Ok(AddBroadcast(x4, enc_pos_channel(m)))

\* the length of the sequence that forward_encoder hands to random_masking,
\* for the embedded tokens e: (N, c, L, D)
MaskLen(m, e) == IF m.spatial_mask THEN e.shape[3] ELSE e.shape[2] * e.shape[3]

\* mask.repeat_interleave(c, dim=1) in place of mask.repeat(1, c)
RepeatCols_Interleave(t, c) ==
    LET L == t.shape[2]
        F(idx) == At(t, <<idx[1], idx[2] \div c>>)
    IN  Tensor(<<t.shape[1], c * L>>,
               [j \in 1..Prod(<<t.shape[1], c * L>>) |->
                  F(Unravel(j - 1, <<t.shape[1], c * L>>))])

\* mask.repeat(1, c): (N, L) -> (N, c * L)
RepeatCols(t, c) ==
    LET L == t.shape[2]
        F(idx) == At(t, <<idx[1], idx[2] % L>>)
    IN  Tensor(<<t.shape[1], c * L>>,
               [j \in 1..Prod(<<t.shape[1], c * L>>) |->
                  F(Unravel(j - 1, <<t.shape[1], c * L>>))])

\* lines 200-239, after encoder_embed gave e: masking by the policy, the cls
\* token, the blocks.  ids_shuffle is the outcome of argsort(noise) inside
\* random_masking.
encoder_mask(m, x, e, mask_ratio, ids_shuffle) ==
    LET b == x.shape[1]
        c == x.shape[2]
        L == e.shape[3]
        D == e.shape[4]
        cls_tokens == Tensor(<<b, 1, D>>, [j \in 1..(b * D) |-> At(cls_token, <<0, 0, (j - 1) % D>>)])
    IN  IF m.spatial_mask
        THEN LET xm == Reshape(Permute(e, <<1, 3, 2, 4>>), <<b, L, e.shape[2] * D>>)
                 rm == random_masking(xm, mask_ratio, ids_shuffle)
                 K == rm.x_masked.shape[2]
             IN  IF ~CanReshape(rm.x_masked, <<b, K, c, D>>)
                 THEN Raise("RuntimeError", "forward_encoder")
                 ELSE LET xk == Reshape(Permute(Reshape(rm.x_masked, <<b, K, c, D>>),
                                                <<1, 3, 2, 4>>), <<b, c * K, D>>)
                      IN  Ok([latent |-> Blocks(Cat1(cls_tokens, xk), "enc"),
                              mask |-> RepeatCols(rm.mask, c),
                              ids_restore |-> rm.ids_restore,
                              len_keep |-> rm.len_keep])
        ELSE LET rm == random_masking(Reshape(e, <<b, e.shape[2] * L, D>>),
                                      mask_ratio, ids_shuffle)
             IN  Ok([latent |-> Blocks(Cat1(cls_tokens, rm.x_masked), "enc"),
                     mask |-> rm.mask,
                     ids_restore |-> rm.ids_restore,
                     len_keep |-> rm.len_keep])

----------------------------------------------------------------------------
(* Decoder *)

\* self.mask_token: (1, 1, decoder_embed_dim)
mask_token ==
    LET F(idx) == [k |-> "mask_token", d |-> idx[3]]
    IN  Tensor(<<1, 1, DecEmbedDim>>,
               [j \in 1..Prod(<<1, 1, DecEmbedDim>>) |->
                  F(Unravel(j - 1, <<1, 1, DecEmbedDim>>))])

\* self.decoder_pos_embed: (1, num_patches + 1, decoder_embed_dim - decoder_channel_embed)
decoder_pos_embed(m) ==
    LET F(idx) == [k |-> "decoder_pos_embed", row |-> idx[2], d |-> idx[3]]
    IN  Tensor(<<1, NumPatches(m) + 1, DecPosDim>>,
               [j \in 1..Prod(<<1, NumPatches(m) + 1, DecPosDim>>) |->
                  F(Unravel(j - 1, <<1, NumPatches(m) + 1, DecPosDim>>))])

\* self.decoder_channel_embed: (1, in_chans + 1, decoder_channel_embed); the
\* extra last row is the place of the cls token
decoder_channel_embed(m) ==
    LET F(idx) == [k |-> "decoder_channel_embed", row |-> idx[2], d |-> idx[3]]
    IN  Tensor(<<1, m.in_c + 1, DecChanDim>>,
               [j \in 1..Prod(<<1, m.in_c + 1, DecChanDim>>) |->
                  F(Unravel(j - 1, <<1, m.in_c + 1, DecChanDim>>))])

\* self.decoder_embed, a Linear(embed_dim, decoder_embed_dim) on every token
decoder_embed(x) ==
    LET F(idx) == [k |-> "dec", tok |-> At(x, <<idx[1], idx[2], 0>>).tok, d |-> idx[3]]
    IN  Tensor(<<x.shape[1], x.shape[2], DecEmbedDim>>,
               [j \in 1..Prod(<<x.shape[1], x.shape[2], DecEmbedDim>>) |->
                  F(Unravel(j - 1, <<x.shape[1], x.shape[2], DecEmbedDim>>))])

\* self.mask_token.repeat(N, count, c): (N, count, c * D)
MaskTokens(N, count, c) ==
    LET D == mask_token.shape[3]
        F(idx) == At(mask_token, <<0, 0, idx[3] % D>>)
    IN  Tensor(<<N, count, c * D>>,
               [j \in 1..Prod(<<N, count, c * D>>) |->
                  F(Unravel(j - 1, <<N, count, c * D>>))])

\* the whole-location restore with the channels merged and split by plain
\* reshapes (the two permutes left out)
RestoreSpatial_NoPermute(m, x, ids_restore) ==
    LET c == m.in_c
        N == ids_restore.shape[1]
        L == ids_restore.shape[2]
        D == x.shape[3]
        body == DropTokens(x, 1)
    IN  IF ~(body.shape[2] % c = 0)
        THEN Raise("RuntimeError", "forward_decoder")
        ELSE LET ml == body.shape[2] \div c
             IN  IF L - ml < 0
                 THEN Raise("RuntimeError", "forward_decoder")
                 ELSE LET x1 == Reshape(body, <<N, ml, c * D>>)
                          x2 == Cat1(x1, MaskTokens(N, L - ml, c))
                          x3 == GatherTokens(x2, ids_restore)
                          x4 == Reshape(x3, <<N, c * L, D>>)
                      IN  Ok(Cat1(FirstToken(x), x4))

\* lines 246-258: the whole-location restore.  x: (N, 1 + c * ml, D)
RestoreSpatial(m, x, ids_restore) ==
    LET c == m.in_c
        N == ids_restore.shape[1]
        L == ids_restore.shape[2]
        D == x.shape[3]
        body == DropTokens(x, 1)
    IN  IF ~(body.shape[2] % c = 0)
        THEN Raise("RuntimeError", "forward_decoder")
        ELSE LET ml == body.shape[2] \div c
             IN  IF L - ml < 0
                 THEN Raise("RuntimeError", "forward_decoder")
                 ELSE LET x1 == Reshape(Permute(Reshape(body, <<N, c, ml, D>>),
                                                <<1, 3, 2, 4>>), <<N, ml, c * D>>)
                          x2 == Cat1(x1, MaskTokens(N, L - ml, c))
                          x3 == GatherTokens(x2, ids_restore)
                          x4 == Reshape(Permute(Reshape(x3, <<N, L, c, D>>),
                                                <<1, 3, 2, 4>>), <<N, c * L, D>>)
                      IN  Ok(Cat1(FirstToken(x), x4))

\* the per-channel restore with the mask tokens put before the kept tokens
RestoreFlat_MaskFirst(x, ids_restore) ==
    LET count == ids_restore.shape[2] + 1 - x.shape[2]
    IN  IF count < 0
        THEN Raise("RuntimeError", "forward_decoder")
        ELSE LET x1 == Cat1(MaskTokens(x.shape[1], count, 1), DropTokens(x, 1))
                 x2 == GatherTokens(x1, ids_restore)
             IN  Ok(Cat1(FirstToken(x), x2))

\* lines 259-263: the per-channel restore.  x: (N, 1 + len_keep, D)
RestoreFlat(x, ids_restore) ==
    LET count == ids_restore.shape[2] + 1 - x.shape[2]
    IN  IF count < 0
        THEN Raise("RuntimeError", "forward_decoder")
        ELSE LET x1 == Cat1(DropTokens(x, 1), MaskTokens(x.shape[1], count, 1))
                 x2 == GatherTokens(x1, ids_restore)
             IN  Ok(Cat1(FirstToken(x), x2))

\* lines 265-277: pos_channel (1, c * L + 1, D): row 0 is the cls place
\* (decoder_pos_embed row 0 with the last decoder_channel_embed row), row
\* 1 + ch * L + s is decoder_pos_embed row s + 1 with decoder_channel_embed row ch
dec_pos_channel(m) ==
    LET L == NumPatches(m)
        pe == decoder_pos_embed(m)
        ce == decoder_channel_embed(m)
        F(idx) ==
          IF idx[2] = 0
          THEN IF idx[3] < DecPosDim
               THEN At(pe, <<0, 0, idx[3]>>)
               ELSE At(ce, <<0, m.in_c, idx[3] - DecPosDim>>)
          ELSE IF idx[3] < DecPosDim
               THEN At(pe, <<0, ((idx[2] - 1) % L) + 1, idx[3]>>)
               ELSE At(ce, <<0, (idx[2] - 1) \div L, idx[3] - DecPosDim>>)
    IN  Tensor(<<1, m.in_c * L + 1, DecEmbedDim>>,
               [j \in 1..Prod(<<1, m.in_c * L + 1, DecEmbedDim>>) |->
                  F(Unravel(j - 1, <<1, m.in_c * L + 1, DecEmbedDim>>))])

\* x + pos_channel for x: (N, S, D) and pos_channel: (1, S, D)
AddRows(x, pos_channel) ==
    LET F(idx) == [k |-> "sum", a |-> At(x, idx),
                   b |-> At(pos_channel, <<0, idx[2], idx[3]>>)]
    IN  Tensor(x.shape,
               [j \in 1..Prod(x.shape) |->
                  F(Unravel(j - 1, x.shape))])

\* the decoder with statistics carried over from an earlier call (as a
\* normalisation layer with running statistics would): after a kept call the
\* predictions are shifted
Net_RunningStats(params, tok, i, q) ==
    (IF tok[1].a.k = "dec"
     THEN params * (1 + ((i + q) % 2))
     ELSE params * (2 + ((i + q) % 3)))
      + (IF prev.op = "none" THEN 0 ELSE 1)

\* the decoder blocks, decoder_norm and decoder_pred as a function of the
\* parameters and of the decoder's input: the prediction for pixel q of the
\* token at position i, one way for a visible token and another for a mask token
Net(params, tok, i, q) ==
    IF tok[1].a.k = "dec"
    THEN params * (1 + ((i + q) % 2))
    ELSE params * (2 + ((i + q) % 3))

\* lines 280-289: blocks, norm, predictor projection, cls token removed:
\* (N, 1 + S, D) -> (N, S, p * p)
decoder_pred(m, x) ==
    LET F(idx) == Net(m.params, TokenAt(x, idx[1], idx[2] + 1), idx[2], idx[3])
    IN  Tensor(<<x.shape[1], x.shape[2] - 1, m.patch_size * m.patch_size>>,
               [j \in 1..Prod(<<x.shape[1], x.shape[2] - 1, m.patch_size * m.patch_size>>) |->
                  F(Unravel(j - 1, <<x.shape[1], x.shape[2] - 1, m.patch_size * m.patch_size>>))])

\* forward_decoder: latent (N, 1 + kept, D), ids_restore -> pred (N, c * L, p * p)
forward_decoder(m, x, ids_restore) ==
    LET xe == decoder_embed(x)
        restored == IF m.spatial_mask THEN RestoreSpatial(m, xe, ids_restore)
                    ELSE RestoreFlat(xe, ids_restore)
    IN  IF ~restored.ok THEN restored
        ELSE IF restored.val.shape[2] # m.in_c * NumPatches(m) + 1
        THEN Raise("RuntimeError", "forward_decoder")
        ELSE LET dec_in == AddRows(restored.val, dec_pos_channel(m))
             IN  Ok([restored |-> restored.val, dec_in |-> dec_in,
                     pred |-> decoder_pred(m, dec_in)])

----------------------------------------------------------------------------
(* Loss *)

RECURSIVE SumTo(_, _)
SumTo(f, n) == IF n = 0 THEN 0 ELSE f[n] + SumTo(f, n - 1)

SumSeq(f) == SumTo(f, Len(f))

\* a / b with 0 returned for an empty denominator (a guarded division)
Quotient_ZeroForEmpty(a, b) ==
    IF b = 0 THEN [nan |-> FALSE, num |-> 0, den |-> 1]
    ELSE [nan |-> FALSE, num |-> a, den |-> b]

\* the value of a / b in floats: NaN for 0 / 0, else the rational a / b
\* (b = 0 only occurs with a = 0 here)
Quotient(a, b) ==
    IF b = 0 THEN [nan |-> TRUE, num |-> 0, den |-> 0]
    ELSE [nan |-> FALSE, num |-> a, den |-> b]

\* the squared error of token j (flat, 0-based, over batch and sequence), summed
\* over its pixels
PatchSqErr(pred, target, j) ==
    LET P2 == target.shape[3]
    IN  SumSeq([q \in 1..P2 |->
                  (pred.data[j * P2 + q] - target.data[j * P2 + q])
                  * (pred.data[j * P2 + q] - target.data[j * P2 + q])])

\* forward_loss on a target already patchified, without the mask weighting
\* (the mean over all patches)
LossOf_NoMask(pred, target, mask) ==
    LET T == target.shape[1] * target.shape[2]
        P2 == target.shape[3]
    IN  Quotient(SumSeq([j \in 1..T |-> PatchSqErr(pred, target, j - 1)]), P2 * T)

\* lines 305-308: loss.mean(dim=-1) per patch, (loss * mask).sum() / mask.sum()
LossOf(pred, target, mask) ==
    LET T == target.shape[1] * target.shape[2]
        P2 == target.shape[3]
    IN  Quotient(SumSeq([j \in 1..T |-> PatchSqErr(pred, target, j - 1) * mask.data[j]]),
                 P2 * SumSeq(mask.data))

\* forward_loss(imgs, pred, mask) with norm_pix_loss = False (the
\* constructor's default).  pred and mask of a shape other than the target's
\* are a RuntimeError (shapes that would broadcast do not occur in the model).
forward_loss(m, imgs, pred, mask) ==
    LET t == patchify(imgs, m.patch_size, m.in_c)
    IN  IF ~t.ok THEN [ok |-> FALSE, err |-> t.err, at |-> "forward_loss"]
        ELSE IF pred.shape # t.val.shape
                \/ mask.shape # <<t.val.shape[1], t.val.shape[2]>>
        THEN Raise("RuntimeError", "forward_loss")
        ELSE Ok(LossOf(pred, t.val, mask))

----------------------------------------------------------------------------
(* State *)

NoModel == [in_c |-> 0]

NoCall == [op |-> "none"]

NoLoc == [res |-> Raise("none", "none")]

\* what the caller has kept of an earlier forward call: nothing
NoPrev == [op |-> "none"]

\* a direct call of patchify(imgs, p, c) with c the image's channel count,
\* followed (when it returns tokens) by unpatchify(tokens, p, c)
CallPatchify ==
    /\ pc = "idle"
    /\ \E imgs \in ImageBatches, p \in 1..MaxPatch :
         \E r \in {patchify(imgs, p, imgs.shape[2])} :
           /\ call' = [op |-> "patchify", imgs |-> imgs, p |-> p, c |-> imgs.shape[2]]
           /\ loc' = [res |-> r]
           /\ pc' = IF r.ok THEN "patchified" ELSE "failed"
    /\ UNCHANGED <<model, prev>>

CallUnpatchify ==
    /\ pc = "patchified"
    /\ \E r \in {unpatchify(loc.res.val, call.p, call.c)} :
         /\ loc' = [res |-> loc.res, back |-> r]
         /\ pc' = IF r.ok THEN "done" ELSE "failed"
    /\ UNCHANGED <<model, call, prev>>

\* the call returns (or its exception reaches the caller): its locals are gone
Return ==
    /\ pc \in {"done", "failed"}
    /\ pc' = "idle"
    /\ call' = NoCall
    /\ loc' = NoLoc
    /\ UNCHANGED <<model, prev>>

\* a direct call of random_masking(x, mask_ratio)
CallRandomMasking ==
    /\ pc = "idle"
    /\ \E L \in 1..MaxLen, D \in {MaxDim}, r \in Ratios :
         \E noise \in NoiseDraws(L) :
           \E s \in ArgsortOutcomes(noise) :
             /\ call' = [op |-> "random_masking", x |-> TokenSeq(L, D), mask_ratio |-> r,
                         noise |-> noise, ids_shuffle |-> Tensor(<<1, L>>, s)]
             /\ loc' = [res |-> Ok(random_masking(TokenSeq(L, D), r, Tensor(<<1, L>>, s)))]
             /\ pc' = "done"
    /\ UNCHANGED <<model, prev>>

TokInit ==
    /\ model = NoModel
    /\ pc = "idle"
    /\ call = NoCall
    /\ loc = NoLoc
    /\ prev = NoPrev

TokNext == CallPatchify \/ CallUnpatchify \/ Return

TokSpec == TokInit /\ [][TokNext]_vars

MaskNext == CallRandomMasking \/ Return

MaskSpec == TokInit /\ [][MaskNext]_vars

\* the patch grids of the models: img_size = g * patch_size, L = g * g
Grids == {1, 2}

\* the learned parameters, as the offset that Net gives its predictions
Weights == {1}

\* the models that the constructor builds: in_chans, spatial_mask, patch_size,
\* img_size and the learned parameters (norm_pix_loss is left at its default)
Models ==
    { [in_c |-> c, spatial_mask |-> sm, patch_size |-> PatchSize,
       img_size |-> PatchSize * g, norm_pix_loss |-> FALSE, params |-> w] :
        c \in 1..FwdChans, sm \in BOOLEAN, g \in Grids, w \in Weights }

\* the mask ratios given to forward: -1/2, 0, 1/RatioDen, 1/4, 1/2, 3/4, 1, 5/4, 3/2
FwdRatios ==
    { r \in Ratios : \/ r.num = 1
                     \/ (4 * r.num) % r.den = 0 }

\* the noise rows given to a forward call on a sequence of length n: when
\* n <= MaxPerm every order of n different values (argsort then gives every
\* permutation), and for every n the rows i |-> (i + b) % n (all values
\* different) and the row with noise[1] = noise[2] the smallest and the other
\* values descending (one pair of equal values, which argsort may give in
\* either order)
FwdNoiseDraws(n) ==
    (IF n <= MaxPerm THEN SeqsOf(0..(n - 1)) ELSE {})
      \cup { [i \in 1..n |-> (i + b) % n] : b \in 0..MaxShift }
      \cup { [i \in 1..n |-> IF i <= 2 THEN 0 ELSE n - i + 1] }

\* forward(imgs, mask_ratio): the encoder (lines 175-239)
ForwardEncoder ==
    /\ pc = "idle"
    /\ \E c \in 1..FwdChans, r \in FwdRatios :
         \E imgs \in {Image(1, c, model.img_size, model.img_size, 1)} :
           \E e \in {encoder_embed(model, imgs)} :
             IF ~e.ok
             THEN /\ call' = [op |-> "forward", imgs |-> imgs, mask_ratio |-> r]
                  /\ loc' = [res |-> e, masked |-> FALSE]
                  /\ pc' = "failed"
             ELSE \E noise \in FwdNoiseDraws(MaskLen(model, e.val)) :
                    \E s \in ArgsortOutcomes(noise) :
                      \E enc \in {encoder_mask(model, imgs, e.val, r, Tensor(<<1, Len(s)>>, s))} :
                        /\ call' = [op |-> "forward", imgs |-> imgs, mask_ratio |-> r,
                                    noise |-> noise, ids_shuffle |-> Tensor(<<1, Len(s)>>, s)]
                        /\ loc' = [res |-> enc, masked |-> TRUE, x_emb |-> e.val]
                        /\ pc' = IF enc.ok THEN "encoded" ELSE "failed"
    /\ UNCHANGED <<model, prev>>

\* forward: the decoder (lines 241-291)
ForwardDecoder ==
    /\ pc = "encoded"
    /\ \E d \in {forward_decoder(model, loc.res.val.latent, loc.res.val.ids_restore)} :
         /\ loc' = [res |-> d, masked |-> TRUE, x_emb |-> loc.x_emb, enc |-> loc.res.val]
         /\ pc' = IF d.ok THEN "decoded" ELSE "failed"
    /\ UNCHANGED <<model, call, prev>>

\* forward: the loss (lines 293-309) and the return of (loss, pred, mask)
ForwardLoss ==
    /\ pc = "decoded"
    /\ \E l \in {forward_loss(model, call.imgs, loc.res.val.pred, loc.enc.mask)} :
         /\ loc' = [res |-> IF l.ok
                            THEN Ok([loss |-> l.val, pred |-> loc.res.val.pred,
                                     mask |-> loc.enc.mask])
                            ELSE l,
                    masked |-> TRUE, x_emb |-> loc.x_emb, enc |-> loc.enc,
                    dec |-> loc.res.val]
         /\ pc' = IF l.ok THEN "done" ELSE "failed"
    /\ UNCHANGED <<model, call, prev>>

FwdInit ==
    /\ model \in Models
    /\ pc = "idle"
    /\ call = NoCall
    /\ loc = NoLoc
    /\ prev = NoPrev

FwdNext == ForwardEncoder \/ ForwardDecoder \/ ForwardLoss \/ Return

FwdSpec == FwdInit /\ [][FwdNext]_vars

\* the noise row with noise[1] = noise[2] (see FwdNoiseDraws)
TieRow(n) == [i \in 1..n |-> IF i <= 2 THEN 0 ELSE n - i + 1]

\* the calls whose outputs the caller keeps for a later comparison: forward
\* with its default mask_ratio = 0.75 (line 311) and a noise row with equal
\* values
ReferenceCall ==
    /\ call.op = "forward"
    /\ 4 * call.mask_ratio.num = 3 * call.mask_ratio.den
    /\ call.noise = TieRow(Len(call.noise))

\* forward returns (loss, pred, mask) and the caller keeps them, with the
\* inputs and the noise of the call and the parameters the model then had
Remember ==
    /\ pc = "done"
    /\ prev = NoPrev
    /\ ReferenceCall
    /\ prev' = [op |-> "forward", model |-> model,
                imgs |-> call.imgs, mask_ratio |-> call.mask_ratio,
                noise |-> call.noise, ids_shuffle |-> call.ids_shuffle,
                out |-> [loss |-> loc.res.val.loss, pred |-> loc.res.val.pred,
                         mask |-> loc.res.val.mask,
                         ids_restore |-> loc.enc.ids_restore]]
    /\ pc' = "idle"
    /\ call' = NoCall
    /\ loc' = NoLoc
    /\ UNCHANGED model

\* forward calls one after another on one model, the outputs of one of them kept
DetNext == ForwardEncoder \/ ForwardDecoder \/ ForwardLoss \/ Return \/ Remember

DetSpec == FwdInit /\ [][DetNext]_vars

\* the models of the direct forward_loss calls: those with at most MaxLen tokens
LossModels == { m \in Models : m.in_c * NumPatches(m) <= MaxLen }

\* predictions (N, T, p * p) for a target: token j is off by err[j] * (q + 1) at
\* its pixel q
PredFor(target, err) ==
    LET F(idx) == At(target, idx) + err[idx[2] + 1] * (idx[3] + 1)
    IN  Tensor(target.shape,
               [j \in 1..Prod(target.shape) |->
                  F(Unravel(j - 1, target.shape))])

\* a direct call of forward_loss(imgs, pred, mask) with pred and mask of the
\* target's shape
CallForwardLoss ==
    /\ pc = "idle"
    /\ \E seed \in 1..MaxSeed :
         \E imgs \in {Image(1, model.in_c, model.img_size, model.img_size, seed)} :
           \E T \in {model.in_c * NumPatches(model)} :
             \E err \in [1..T -> 0..1], mk \in [1..T -> 0..1] :
               \E pred \in {PredFor(patchify(imgs, model.patch_size, model.in_c).val, err)} :
                 \E l \in {forward_loss(model, imgs, pred, Tensor(<<1, T>>, mk))} :
                   /\ call' = [op |-> "forward_loss", imgs |-> imgs, pred |-> pred,
                               err |-> err, mask |-> Tensor(<<1, T>>, mk)]
                   /\ loc' = [res |-> l]
                   /\ pc' = IF l.ok THEN "done" ELSE "failed"
    /\ UNCHANGED <<model, prev>>

LossInit ==
    /\ model \in LossModels
    /\ pc = "idle"
    /\ call = NoCall
    /\ loc = NoLoc
    /\ prev = NoPrev

LossNext == CallForwardLoss \/ Return

LossSpec == LossInit /\ [][LossNext]_vars

----------------------------------------------------------------------------
(* Claims about the tokenizer (TokSpec) *)

ValidImage(imgs, p) == imgs.shape[3] = imgs.shape[4] /\ imgs.shape[3] % p = 0

PatchifyCalled == call.op = "patchify" /\ pc # "idle"

\* C1: for every valid image batch x of shape (N, C, H, H) with H divisible by
\* P, patchify(x, P, C) returns tokens and unpatchify of them returns x: the
\* same shape and every pixel at its original batch / channel / row / column.
C1_RoundTrip ==
    /\ (PatchifyCalled /\ ValidImage(call.imgs, call.p)) => loc.res.ok
    /\ (PatchifyCalled /\ loc.res.ok /\ pc # "patchified")
         => (pc = "done" /\ loc.back.ok /\ loc.back.val = call.imgs)

C1_Witness ==
    /\ PatchifyCalled /\ pc = "done"
    /\ call.imgs.shape = <<2, 3, 4, 4>> /\ call.p = 2
    /\ loc.back.val = call.imgs

\* C2: patchify(imgs, P, C) returns shape (N, C * L, P * P) with
\* L = (H / P) * (W / P), and output[n, c * L + i * (W / P) + j, a * P + b] is
\* imgs[n, c, i * P + a, j * P + b]: tokens are grouped by channel, row-major
\* within a channel, and every token holds pixels of one channel only.
C2_CanonicalOrder ==
    (PatchifyCalled /\ loc.res.ok) =>
        LET imgs == call.imgs
            P == call.p
            g == imgs.shape[3] \div P
            L == g * g
            out == loc.res.val
        IN  /\ out.shape = <<imgs.shape[1], imgs.shape[2] * L, P * P>>
            /\ \A n \in 0..(imgs.shape[1] - 1), c \in 0..(imgs.shape[2] - 1),
                  i \in 0..(g - 1), j \in 0..(g - 1), a \in 0..(P - 1), b \in 0..(P - 1) :
                 At(out, <<n, c * L + i * g + j, a * P + b>>)
                   = At(imgs, <<n, c, i * P + a, j * P + b>>)

C2_Witness ==
    /\ PatchifyCalled /\ loc.res.ok
    /\ call.imgs.shape = <<1, 2, 4, 4>> /\ call.p = 2
    /\ At(loc.res.val, <<0, 4 + 2 + 1, 2 + 1>>) = At(call.imgs, <<0, 1, 2 + 1, 2 + 1>>)

\* C9: patchify on an image batch with H # W or with H not divisible by P
\* fails on its assertion and returns no tokens; it returns tokens only when
\* H = W and H % P = 0.
C9_PatchifyPrecondition ==
    PatchifyCalled =>
        /\ ~ValidImage(call.imgs, call.p)
             => (pc = "failed" /\ ~loc.res.ok /\ loc.res.err = "AssertionError")
        /\ loc.res.ok => ValidImage(call.imgs, call.p)

C9_Witness ==
    /\ PatchifyCalled /\ pc = "failed" /\ loc.res.err = "AssertionError"
    /\ call.imgs.shape[3] # call.imgs.shape[4]
    /\ call.imgs.shape[3] % call.p = 0

----------------------------------------------------------------------------
(* Claims about the masking engine (MaskSpec) *)

MaskingCalled == call.op = "random_masking" /\ pc = "done"

CountOf(row, v) == Cardinality({ i \in DOMAIN row : row[i] = v })

\* floor(L * (1 - r)) for r = num / den
FloorKeep(L, r) == (L * (r.den - r.num)) \div r.den

\* C3: random_masking on a sequence of length L with a mask ratio r in [0, 1]:
\* for every noise draw, equal noise values included, the mask has exactly
\* floor(L * (1 - r)) entries 0 and L - floor(L * (1 - r)) entries 1, and the
\* kept-token output has exactly floor(L * (1 - r)) tokens.
C3_MaskCardinality ==
    (MaskingCalled /\ InClosedUnit(call.mask_ratio)) =>
        LET L == call.x.shape[2]
            K == FloorKeep(L, call.mask_ratio)
            out == loc.res.val
        IN  /\ out.mask.shape = <<1, L>>
            /\ CountOf(out.mask.data, 0) = K
            /\ CountOf(out.mask.data, 1) = L - K
            /\ out.x_masked.shape = <<1, K, call.x.shape[3]>>

C3_Witness ==
    /\ MaskingCalled
    /\ call.x.shape[2] = 3
    /\ 2 * call.mask_ratio.num = call.mask_ratio.den
    /\ call.noise = <<1, 1, 0>>
    /\ loc.res.val.mask.data = <<1, 1, 0>>
    /\ loc.res.val.x_masked.shape[2] = 1

----------------------------------------------------------------------------
(* Claims about forward (FwdSpec) *)

ForwardCalled == call.op = "forward" /\ pc # "idle"

\* forward_encoder has returned (latent, mask, ids_restore)
EncoderReturned == ForwardCalled /\ (pc = "encoded" \/ "enc" \in DOMAIN loc)

EncOut == IF pc = "encoded" THEN loc.res.val ELSE loc.enc

\* forward_decoder has returned
DecoderReturned == ForwardCalled /\ (pc = "decoded" \/ "dec" \in DOMAIN loc)

DecOut == IF pc = "decoded" THEN loc.res.val ELSE loc.dec

\* what the decoder's restore step holds for the encoder's token of the
\* embedded token i (flat, 0-based) of x_emb
VisibleAt(x_emb, i, d) ==
    LET flat == Reshape(x_emb, <<1, x_emb.shape[2] * x_emb.shape[3], x_emb.shape[4]>>)
    IN  [k |-> "dec", tok |-> Summary(TokenAt(flat, 0, i)), d |-> d]

\* C4: under the per-channel policy, for every noise draw, ids_restore is a
\* permutation of 0..L-1 and the inverse of the shuffle, and the sequence that
\* the decoder restores (kept tokens, then placeholders, gathered by
\* ids_restore) holds at every position i the token of the original token i
\* when mask[i] = 0 and the placeholder when mask[i] = 1; for a mask ratio in
\* [0, 1], mask[i] = 0 exactly when ids_restore[i] < len_keep.
C4_RestoreCorrect ==
    (DecoderReturned /\ ~model.spatial_mask) =>
        LET L == call.ids_shuffle.shape[2]
            sh == call.ids_shuffle.data
            ids == EncOut.ids_restore.data
            mask == EncOut.mask.data
            restored == DecOut.restored
        IN  /\ Len(ids) = L
            /\ { ids[i] : i \in 1..L } = 0..(L - 1)
            /\ \A i \in 1..L : ids[sh[i] + 1] = i - 1 /\ sh[ids[i] + 1] = i - 1
            /\ restored.shape = <<1, L + 1, DecEmbedDim>>
            /\ \A i \in 0..(L - 1), d \in 0..(DecEmbedDim - 1) :
                 At(restored, <<0, i + 1, d>>)
                   = IF mask[i + 1] = 0 THEN VisibleAt(loc.x_emb, i, d)
                     ELSE At(mask_token, <<0, 0, d>>)
            /\ InClosedUnit(call.mask_ratio)
                 => \A i \in 1..L : mask[i] = 0 <=> ids[i] < EncOut.len_keep

C4_Witness ==
    /\ DecoderReturned /\ ~model.spatial_mask /\ pc = "decoded"
    /\ model.in_c = 2 /\ call.imgs.shape[2] = 2 /\ NumPatches(model) = 4
    /\ 4 * call.mask_ratio.num = 3 * call.mask_ratio.den
    /\ call.ids_shuffle.data[1] # 0
    /\ CountOf(EncOut.mask.data, 0) = 2
    /\ \E i \in 0..7, j \in 0..7 :
         /\ EncOut.mask.data[i + 1] = 0
         /\ At(DecOut.restored, <<0, i + 1, 0>>) = VisibleAt(loc.x_emb, i, 0)
         /\ EncOut.mask.data[j + 1] = 1
         /\ At(DecOut.restored, <<0, j + 1, 0>>) = At(mask_token, <<0, 0, 0>>)

\* the locations that the whole-location policy keeps
KeptLocations == { s \in 0..(NumPatches(model) - 1) : EncOut.mask.data[s + 1] = 0 }

\* C5: under the whole-location policy, the mask that forward_encoder returns
\* has length C * L, every location has one mask value in all C channels, and
\* the tokens after the cls token are exactly the C channel tokens of every
\* kept location.
C5_WholeLocation ==
    (EncoderReturned /\ model.spatial_mask /\ call.imgs.shape[2] = model.in_c) =>
        LET C == model.in_c
            L == NumPatches(model)
            mask == EncOut.mask
            latent == EncOut.latent
            K == Cardinality(KeptLocations)
        IN  /\ mask.shape = <<1, C * L>>
            /\ \A s \in 0..(L - 1), c1 \in 0..(C - 1), c2 \in 0..(C - 1) :
                 mask.data[c1 * L + s + 1] = mask.data[c2 * L + s + 1]
            /\ latent.shape = <<1, 1 + C * K, EmbedDim>>
            /\ At(latent, <<0, 0, 0>>).tok.src = {<<"cls_token">>}
            /\ { At(latent, <<0, t, 0>>).tok.src : t \in 1..(C * K) }
                 = { {<<"patch", ch, s>>} : ch \in 0..(C - 1), s \in KeptLocations }

C5_Witness ==
    /\ EncoderReturned /\ model.spatial_mask /\ pc = "encoded"
    /\ model.in_c = 2 /\ call.imgs.shape[2] = 2 /\ NumPatches(model) = 4
    /\ call.ids_shuffle.data[1] # 0
    /\ Cardinality(KeptLocations) = 2
    /\ CountOf(EncOut.mask.data, 0) = 4
    /\ EncOut.latent.shape[2] = 5

\* the end-to-end example: 1 sample, 2 channels, 4 x 4 pixels, patch size 2,
\* mask_ratio = 0.75
ExampleCall ==
    /\ ForwardCalled
    /\ model.in_c = 2 /\ model.patch_size = 2 /\ model.img_size = 4
    /\ call.imgs.shape = <<1, 2, 4, 4>>
    /\ 4 * call.mask_ratio.num = 3 * call.mask_ratio.den

\* C7 as the specification states it: under the whole-location policy the
\* example keeps 2 of its 4 locations
C7_TwoLocationsKept ==
    (ExampleCall /\ EncoderReturned /\ model.spatial_mask)
        => Cardinality(KeptLocations) = 2

\* C7: the example does not fail; it keeps 2 of its 8 tokens under the
\* per-channel policy and 1 of its 4 locations, in both channels (2 kept
\* tokens), under the whole-location policy; the predictions have shape
\* (1, 8, 4) and the loss is a finite non-negative number.
C7_Example ==
    ExampleCall =>
        /\ pc # "failed"
        /\ EncOut.mask.shape = <<1, 8>>
        /\ CountOf(EncOut.mask.data, 0) = 2
        /\ EncOut.latent.shape[2] = 1 + 2
        /\ model.spatial_mask => Cardinality(KeptLocations) = 1
        /\ DecoderReturned => DecOut.pred.shape = <<1, 8, 4>>
        /\ pc = "done" =>
             /\ loc.res.val.pred.shape = <<1, 8, 4>>
             /\ ~loc.res.val.loss.nan
             /\ loc.res.val.loss.num >= 0 /\ loc.res.val.loss.den > 0

C7_Witness ==
    /\ ExampleCall /\ model.spatial_mask /\ pc = "done"
    /\ Cardinality(KeptLocations) = 1
    /\ CountOf(loc.res.val.mask.data, 0) = 2
    /\ loc.res.val.loss.num > 0

\* C8 as the specification states it: forward with a mask ratio outside (0, 1)
\* returns nothing, and len_keep >= 1 on every call that returns
C8_RatioRejected ==
    (ForwardCalled /\ pc = "done") =>
        /\ InOpenUnit(call.mask_ratio)
        /\ loc.enc.len_keep >= 1

\* the call forward(imgs of shape (1, 2, 4, 4), mask_ratio = 1.5) of a
\* per-channel model returns: len_keep = -4, 4 of the 8 tokens kept
C8_Witness ==
    /\ ForwardCalled /\ pc = "done"
    /\ model.in_c = 2 /\ ~model.spatial_mask
    /\ call.imgs.shape = <<1, 2, 4, 4>>
    /\ 2 * call.mask_ratio.num = 3 * call.mask_ratio.den
    /\ loc.enc.len_keep = -4
    /\ CountOf(loc.res.val.mask.data, 0) = 4
    /\ loc.res.val.pred.shape = <<1, 8, 4>>
    /\ ~loc.res.val.loss.nan

\* C10 as the specification states it: forward on images whose channel count
\* is not the model's fails in the encoder, before any masking or decoding
C10_MismatchRejectedInEncoder ==
    (ForwardCalled /\ call.imgs.shape[2] # model.in_c) =>
        /\ pc = "failed"
        /\ ~loc.masked
        /\ loc.res.at = "forward_encoder"

\* the call forward(imgs of shape (1, 1, 4, 4), mask_ratio = 0.75) of a
\* per-channel model built with in_chans = 2 fails in forward_loss, after the
\* encoder has masked and the decoder has predicted
C10_Witness ==
    /\ ForwardCalled /\ pc = "failed"
    /\ model.in_c = 2 /\ ~model.spatial_mask
    /\ call.imgs.shape = <<1, 1, 4, 4>>
    /\ 4 * call.mask_ratio.num = 3 * call.mask_ratio.den
    /\ loc.masked
    /\ loc.res.at = "forward_loss" /\ loc.res.err = "RuntimeError"
    /\ loc.dec.pred.shape = <<1, 8, 4>>

\* a forward call on images whose channel count is not the model's never
\* returns (loss, pred, mask)
MismatchNeverReturns ==
    (ForwardCalled /\ call.imgs.shape[2] # model.in_c) => pc # "done"

\* C13: under the whole-location policy the encoder's split and the decoder's
\* re-merge agree.  After the cls token the encoder gives, at index
\* ch * K + j, the token of channel ch at the j-th kept location (K kept
\* locations, K = floor(L * (1 - r)) for r in [0, 1]); the decoder's restored
\* sequence has length 1 + C * L, the cls token at position 0, and at position
\* 1 + ch * L + s the encoder's token of (channel ch, location s) when s was
\* kept and the mask token when it was removed, as the replicated mask says.
C13_SplitAndRemerge ==
    (EncoderReturned /\ model.spatial_mask /\ call.imgs.shape[2] = model.in_c) =>
        LET C == model.in_c
            L == NumPatches(model)
            sh == call.ids_shuffle.data
            mask == EncOut.mask.data
            latent == EncOut.latent
            K == (latent.shape[2] - 1) \div C
        IN  /\ latent.shape[2] = 1 + C * K
            /\ InClosedUnit(call.mask_ratio) => K = FloorKeep(L, call.mask_ratio)
            /\ \A ch \in 0..(C - 1), j \in 0..(K - 1) :
                 At(latent, <<0, 1 + ch * K + j, 0>>).tok.src = {<<"patch", ch, sh[j + 1]>>}
            /\ DecoderReturned =>
                 /\ DecOut.restored.shape = <<1, 1 + C * L, DecEmbedDim>>
                 /\ \A d \in 0..(DecEmbedDim - 1) :
                      /\ At(DecOut.restored, <<0, 0, d>>).k = "dec"
                      /\ At(DecOut.restored, <<0, 0, d>>).tok.src = {<<"cls_token">>}
                      /\ \A ch \in 0..(C - 1), s \in 0..(L - 1) :
                           At(DecOut.restored, <<0, 1 + ch * L + s, d>>)
                             = IF s \in { sh[j] : j \in 1..K }
                               THEN VisibleAt(loc.x_emb, ch * L + s, d)
                               ELSE At(mask_token, <<0, 0, d>>)
                 /\ \A ch \in 0..(C - 1), s \in 0..(L - 1) :
                      mask[ch * L + s + 1] = 0 <=> s \in { sh[j] : j \in 1..K }

C13_Witness ==
    /\ DecoderReturned /\ model.spatial_mask /\ pc = "decoded"
    /\ model.in_c = 2 /\ call.imgs.shape[2] = 2 /\ NumPatches(model) = 4
    /\ 2 * call.mask_ratio.num = call.mask_ratio.den
    /\ call.ids_shuffle.data = <<2, 0, 3, 1>>
    /\ At(EncOut.latent, <<0, 1 + 2 + 1, 0>>).tok.src = {<<"patch", 1, 0>>}
    /\ At(DecOut.restored, <<0, 1 + 4 + 2, 0>>) = VisibleAt(loc.x_emb, 4 + 2, 0)
    /\ At(DecOut.restored, <<0, 1 + 4 + 3, 0>>) = At(mask_token, <<0, 0, 0>>)

\* the embedding element added at feature d to a token of positional row prow
\* and channel row crow, for embeddings named pname and cname with pdim
\* positional features
EmbeddingAt(pname, cname, pdim, prow, crow, d) ==
    IF d < pdim THEN [k |-> pname, row |-> prow, d |-> d]
    ELSE [k |-> cname, row |-> crow, d |-> d - pdim]

\* C14: in the encoder the token of (channel ch, location s) is the patch
\* embedding of that patch plus pos_embed row s + 1 and channel_embed row ch,
\* and the cls token gets no embedding; in the decoder, position 1 + ch * L + s
\* gets decoder_pos_embed row s + 1 and decoder_channel_embed row ch, position
\* 0 gets decoder_pos_embed row 0 and the last decoder_channel_embed row (C);
\* the cls position is dropped, so pred has patchify's shape (N, C * L, P * P)
\* and pred index ch * L + s is the prediction of position 1 + ch * L + s.
C14_EmbeddingRows ==
    (EncoderReturned /\ call.imgs.shape[2] = model.in_c) =>
        LET C == model.in_c
            L == NumPatches(model)
            P2 == model.patch_size * model.patch_size
        IN  /\ loc.x_emb.shape = <<1, C, L, EmbedDim>>
            /\ \A ch \in 0..(C - 1), s \in 0..(L - 1), d \in 0..(EmbedDim - 1) :
                 At(loc.x_emb, <<0, ch, s, d>>)
                   = [k |-> "sum",
                      a |-> [k |-> "patch", img |-> ch, s |-> s, d |-> d],
                      b |-> EmbeddingAt("pos_embed", "channel_embed", PosDim, s + 1, ch, d)]
            /\ At(EncOut.latent, <<0, 0, 0>>).tok = [src |-> {<<"cls_token">>}, emb |-> {}]
            /\ DecoderReturned =>
                 /\ DecOut.dec_in.shape = <<1, 1 + C * L, DecEmbedDim>>
                 /\ \A d \in 0..(DecEmbedDim - 1) :
                      /\ At(DecOut.dec_in, <<0, 0, d>>)
                           = [k |-> "sum", a |-> At(DecOut.restored, <<0, 0, d>>),
                              b |-> EmbeddingAt("decoder_pos_embed", "decoder_channel_embed",
                                                DecPosDim, 0, C, d)]
                      /\ \A ch \in 0..(C - 1), s \in 0..(L - 1) :
                           At(DecOut.dec_in, <<0, 1 + ch * L + s, d>>)
                             = [k |-> "sum",
                                a |-> At(DecOut.restored, <<0, 1 + ch * L + s, d>>),
                                b |-> EmbeddingAt("decoder_pos_embed", "decoder_channel_embed",
                                                  DecPosDim, s + 1, ch, d)]
                 /\ DecOut.pred.shape = <<1, C * L, P2>>
                 /\ DecOut.pred.shape = patchify(call.imgs, model.patch_size, C).val.shape
                 /\ \A j \in 0..(C * L - 1), q \in 0..(P2 - 1) :
                      At(DecOut.pred, <<0, j, q>>)
                        = Net(model.params, TokenAt(DecOut.dec_in, 0, j + 1), j, q)
                 /\ \A ch \in 0..(C - 1), s \in 0..(L - 1) :
                      EncOut.mask.data[ch * L + s + 1] = 0
                        => At(DecOut.dec_in, <<0, 1 + ch * L + s, 0>>).a.tok
                             = [src |-> {<<"patch", ch, s>>},
                                emb |-> {<<"pos_embed", s + 1>>, <<"channel_embed", ch>>}]

C14_Witness ==
    /\ DecoderReturned /\ pc = "decoded"
    /\ model.in_c = 2 /\ call.imgs.shape[2] = 2 /\ NumPatches(model) = 4
    /\ EncOut.mask.data[4 + 2 + 1] = 0
    /\ At(loc.x_emb, <<0, 1, 2, 0>>).b = [k |-> "pos_embed", row |-> 3, d |-> 0]
    /\ At(DecOut.dec_in, <<0, 1 + 4 + 2, DecPosDim>>).b
         = [k |-> "decoder_channel_embed", row |-> 1, d |-> 0]
    /\ At(DecOut.dec_in, <<0, 0, DecPosDim>>).b
         = [k |-> "decoder_channel_embed", row |-> 2, d |-> 0]
    /\ DecOut.pred.shape = <<1, 8, 4>>

\* C15: for a mask ratio r in [0, 1] the encoder's output has 1 + kept tokens
\* with the cls token first, kept = floor(C * L * (1 - r)) under the
\* per-channel policy and kept = C * floor(L * (1 - r)) under the
\* whole-location policy; in both the mask has length C * L and kept zeros;
\* ids_restore has length C * L under per-channel and L under whole-location.
C15_EncoderLengths ==
    (EncoderReturned /\ call.imgs.shape[2] = model.in_c /\ InClosedUnit(call.mask_ratio)) =>
        LET C == model.in_c
            L == NumPatches(model)
            kept == IF model.spatial_mask THEN C * FloorKeep(L, call.mask_ratio)
                    ELSE FloorKeep(C * L, call.mask_ratio)
        IN  /\ EncOut.latent.shape = <<1, 1 + kept, EmbedDim>>
            /\ At(EncOut.latent, <<0, 0, 0>>).tok.src = {<<"cls_token">>}
            /\ \A t \in 1..kept : At(EncOut.latent, <<0, t, 0>>).tok.src # {<<"cls_token">>}
            /\ EncOut.mask.shape = <<1, C * L>>
            /\ CountOf(EncOut.mask.data, 0) = kept
            /\ CountOf(EncOut.mask.data, 1) = C * L - kept
            /\ EncOut.ids_restore.shape
                 = IF model.spatial_mask THEN <<1, L>> ELSE <<1, C * L>>

\* 3 channels, 4 locations, r = 1/2: the two policies keep the same number of
\* tokens; the ids_restore lengths differ
C15_Witness ==
    /\ EncoderReturned /\ pc = "encoded"
    /\ model.in_c = 3 /\ call.imgs.shape[2] = 3 /\ NumPatches(model) = 4
    /\ model.spatial_mask
    /\ 2 * call.mask_ratio.num = call.mask_ratio.den
    /\ EncOut.latent.shape[2] = 1 + 6
    /\ CountOf(EncOut.mask.data, 0) = 6
    /\ EncOut.ids_restore.shape = <<1, 4>>

----------------------------------------------------------------------------
(* Claims about repeated forward calls (DetSpec) *)

\* the returned call has the images, the mask ratio and the noise draw of the
\* kept call (with the order that argsort gave the equal noise values)
SameInputsAsKept ==
    /\ ForwardCalled /\ pc = "done" /\ prev # NoPrev
    /\ call.imgs = prev.imgs
    /\ call.mask_ratio = prev.mask_ratio
    /\ call.noise = prev.noise
    /\ call.ids_shuffle = prev.ids_shuffle

----------------------------------------------------------------------------
(* Claims about the loss (LossSpec) *)

LossCalled == call.op = "forward_loss" /\ pc = "done"

\* the sum of (q + 1)^2 over the pixels q of a patch
PixelWeight(P2) == SumSeq([q \in 1..P2 |-> q * q])

\* C6: forward_loss(imgs, pred, mask) is the sum over the tokens of
\* mask * (mean squared error of the patch) over the sum of the mask: other
\* predictions at the positions with mask = 0 give the same loss, and when the
\* predictions are the target at every position with mask = 1 (and the mask is
\* not all 0) the loss is 0 whatever the error at the positions with mask = 0.
C6_LossLocality ==
    LossCalled =>
        LET target == patchify(call.imgs, model.patch_size, model.in_c).val
            T == target.shape[2]
            P2 == target.shape[3]
            mask == call.mask
            loss == loc.res.val
            hidden == { j \in 1..T : mask.data[j] = 1 }
        IN  /\ hidden # {} =>
                 /\ ~loss.nan
                 /\ loss.num = PixelWeight(P2)
                                 * Cardinality({ j \in hidden : call.err[j] # 0 })
                 /\ loss.den = P2 * Cardinality(hidden)
            /\ \A err2 \in [1..T -> 0..1] :
                 (\A j \in hidden : err2[j] = call.err[j])
                   => forward_loss(model, call.imgs, PredFor(target, err2), mask) = loc.res
            /\ (hidden # {} /\ \A j \in hidden : call.err[j] = 0) => loss.num = 0

C6_Witness ==
    /\ LossCalled
    /\ call.mask.data = <<0, 1>>
    /\ call.err = <<1, 0>>
    /\ ~loc.res.val.nan /\ loc.res.val.num = 0 /\ loc.res.val.den > 0

\* C11: forward_loss with a mask whose entries sum to zero gives the NaN of
\* 0 / 0 and no finite loss, whatever the predictions; it gives a finite loss
\* exactly when at least one mask entry is 1.
C11_EmptyMaskIsNaN ==
    LossCalled =>
        LET loss == loc.res.val
            hidden == { j \in DOMAIN call.mask.data : call.mask.data[j] = 1 }
        IN  /\ SumSeq(call.mask.data) = 0 => loss.nan
            /\ ~loss.nan <=> hidden # {}
            /\ ~loss.nan => loss.den = call.pred.shape[3] * Cardinality(hidden)

C11_Witness ==
    /\ LossCalled
    /\ call.mask.data = <<0, 0>>
    /\ call.err = <<1, 0>>
    /\ loc.res.val.nan

====
